---- MODULE Spec2Model ----
(***************************************************************************)
(* Soprano-bass chorale generator: the Chorale structure with its          *)
(* voice-leading validity predicate (chorale.py) and the depth-first       *)
(* backtracking search of ChoraleGenerator (chorale_generator.py).         *)
(*                                                                         *)
(* A Pitch is its midi_index, an integer.  Sequences are 1-based here; the *)
(* program's 0-based slot i is element i + 1.                              *)
(***************************************************************************)
EXTENDS Integers, Sequences, FiniteSets

VARIABLES
    key,         \* the KeySignature of the bassline: [tonic, is_major]
    bassline,    \* HarmonizedBassline.bass_harmonizations: Seq of [bass, chord]
    candidates,  \* Chorale.soprano_candidates, one list shared by every copy
    heap,        \* the soprano_line list objects, by reference
    lineRef,     \* lineRef[0]: the caller's Chorale; lineRef[g]: generator g's
    built,       \* built[g]: ChoraleGenerator g has been constructed
    seed,        \* seed[g]: the random_seed g was constructed with
    rng,         \* rng[g]: the state of g's own Random stream
    stack,       \* stack[g]: the frames of _try_generate_soprano_for_index
    result,      \* result[g]: how generate_soprano ended
    pre,         \* pre[g]: g's soprano line when generate_soprano was called
    visited      \* visited[g]: the <<slot, pitch>> g assigned, in order

vars == <<key, bassline, candidates, heap, lineRef, built, seed, rng, stack,
          result, pre, visited>>

----
(* Bounds of the model *)

\* longest bassline (number of chord slots)
MaxLen == 3
\* most soprano hints the caller sets before generating
MaxHints == 1

\* slots of the longest bassline of the locality runs
LocalLen == 4

\* the generators the caller builds from one Chorale
Gens == {1, 2}
\* the random seeds they are built with
Seeds == {1, 2}
\* pitches the caller passes to set_soprano_note: from B3, below the soprano
\* range, to A5, above it
NotePitches == {59, 60, 64, 65, 67, 69, 70, 71, 72, 77, 79, 81}
\* pitches the caller uses as hints before generating
HintPitches == {67, 69, 72, 81}

----
(* pitch.py *)

\* an unset soprano slot (Optional[Pitch]); no Pitch has a negative index
None == -1

NoteClass(p) == p % 12

from_note_name(pc, octave) == (octave + 1) * 12 + pc

plus_interval(p, semitones) == p + semitones

distance_to(p, other) == other - p

note_name_equals(p, other) == (p % 12) = (other % 12)

Abs(x) == IF x < 0 THEN -x ELSE x

----
(* tonality.py *)

CHORD_TONE_OFFSETS(quality) ==
    CASE quality = "major" -> <<0, 4, 7>>
      [] quality = "minor" -> <<0, 3, 7>>
      [] quality = "diminished" -> <<0, 3, 6>>
      [] quality = "augmented" -> <<0, 4, 8>>
      [] quality = "major_seventh" -> <<0, 4, 7, 11>>
      [] quality = "minor_seventh" -> <<0, 3, 7, 10>>
      [] quality = "dominant_seventh" -> <<0, 4, 7, 10>>
      [] quality = "half_diminished_seventh" -> <<0, 3, 6, 10>>
      [] quality = "diminished_seventh" -> <<0, 3, 6, 9>>

TONIC == 1
SUPERTONIC == 2
MEDIANT == 3
SUBDOMINANT == 4
DOMINANT == 5
SUBMEDIANT == 6
LEADING_TONE == 7

MAJOR_SCALE_INTERVALS == <<0, 2, 4, 5, 7, 9, 11>>

MINOR_SCALE_INTERVALS == <<0, 2, 3, 5, 7, 8, 10>>

\* scale degree -> semitones above the tonic, by the key's mode
scale_degree_to_interval(scale_degree, ks) ==
    IF ks.is_major THEN MAJOR_SCALE_INTERVALS[scale_degree]
    ELSE MINOR_SCALE_INTERVALS[scale_degree]

get_chord_tones(chord, ks) ==
    LET scale_intervals == IF ks.is_major THEN MAJOR_SCALE_INTERVALS
                           ELSE MINOR_SCALE_INTERVALS
        chord_root == plus_interval(ks.tonic, scale_intervals[chord.scale_degree])
        offs == CHORD_TONE_OFFSETS(chord.quality)
    IN  [k \in 1..Len(offs) |-> plus_interval(chord_root, offs[k])]

----
(* bassline.py *)

num_harmonizations == Len(bassline)

get_bass_pitch(index) == bassline[index + 1].bass

get_chord(index) == bassline[index + 1].chord

\* the chord tones of slot index's chord in the bassline's key
bassline_get_chord_tones(bl, ks, index) == get_chord_tones(bl[index + 1].chord, ks)

----
(* chorale.py: module functions *)

is_stepwise_interval(semitones) ==
    semitones = 1 \/ semitones = 2 \/ semitones = -1 \/ semitones = -2

is_disjunct_interval(semitones) == Abs(semitones) > 2

is_leap_interval(semitones) == Abs(semitones) > 4

\* mutant: the range the docstrings of soprano_valid_at and all_soprano_voicings
\* name (G4 to C6) in place of the one the code tests
is_in_soprano_range_G4_C6(pitch) ==
    from_note_name(7, 4) <= pitch /\ pitch <= from_note_name(0, 6)

is_in_soprano_range(pitch) ==
    from_note_name(0, 4) <= pitch /\ pitch <= from_note_name(7, 5)

\* the octaves all_soprano_voicings tries: range(4, 7)
VoicingOctaves == <<4, 5, 6>>

RECURSIVE SelectInRange(_)
SelectInRange(ps) ==
    IF ps = <<>> THEN <<>>
    ELSE (IF is_in_soprano_range(Head(ps)) THEN <<Head(ps)>> ELSE <<>>)
         \o SelectInRange(Tail(ps))

\* mutant: the octaves are gone through from the top
all_soprano_voicings_Descending(pitch) ==
    SelectInRange([k \in 1..Len(VoicingOctaves) |->
                      from_note_name(NoteClass(pitch),
                                     VoicingOctaves[Len(VoicingOctaves) + 1 - k])])

all_soprano_voicings(pitch) ==
    SelectInRange([k \in 1..Len(VoicingOctaves) |->
                      from_note_name(NoteClass(pitch), VoicingOctaves[k])])

RECURSIVE ExtendAll(_)
ExtendAll(chord_tones) ==
    IF chord_tones = <<>> THEN <<>>
    ELSE all_soprano_voicings(Head(chord_tones)) \o ExtendAll(Tail(chord_tones))

\* Chorale.__init__ without soprano_candidates: one candidate list per slot
ComputeCandidates(bl, ks) ==
    [k \in 1..Len(bl) |-> ExtendAll(bassline_get_chord_tones(bl, ks, k - 1))]

----
(* chorale.py: class Chorale, over a soprano line (a sequence of Optional[Pitch]) *)

num_chords(line) == Len(line)

get_soprano_note(line, index) == line[index + 1]

\* Python list indexing: a negative index counts from the end
PyIndex(line, index) == IF index < 0 THEN index + Len(line) ELSE index

set_soprano_note(line, index, pitch) ==
    [line EXCEPT ![PyIndex(line, index) + 1] = pitch]

get_soprano_candidates(index) == candidates[index + 1]

InSeq(x, seq) == \E k \in 1..Len(seq) : seq[k] = x

soprano_done(line) == \A k \in 1..Len(line) : line[k] # None

prev_note(line, index) ==
    IF index > 0 THEN get_soprano_note(line, index - 1) ELSE None

\* mutant: the note two slots back is read from slot 1 on, where index - 2 is
\* -1 and Python reads the last slot
prev_prev_note_FromSlotOne(line, index) ==
    IF index > 0 THEN get_soprano_note(line, PyIndex(line, index - 2)) ELSE None

prev_prev_note(line, index) ==
    IF index > 1 THEN get_soprano_note(line, index - 2) ELSE None

\* lines 84-87: range and chord-tone membership
RangeAndMemberOK(line, index) ==
    LET soprano_note == get_soprano_note(line, index)
    IN  /\ is_in_soprano_range(soprano_note)
        /\ InSeq(soprano_note, get_soprano_candidates(index))

\* mutant: a same-direction step after the leap is let through
LeapLeftOK_AnyStep(line, index) ==
    LET p == prev_note(line, index)
        pp == prev_prev_note(line, index)
        melodic_interval == distance_to(pp, p)
        step_interval == distance_to(p, get_soprano_note(line, index))
    IN  (p # None /\ pp # None /\ is_leap_interval(melodic_interval))
            => is_stepwise_interval(step_interval)

\* lines 93-99: a leap made by the previous two notes is left by a step in
\* the opposite direction
LeapLeftOK(line, index) ==
    LET p == prev_note(line, index)
        pp == prev_prev_note(line, index)
        melodic_interval == distance_to(pp, p)
        step_interval == distance_to(p, get_soprano_note(line, index))
    IN  (p # None /\ pp # None /\ is_leap_interval(melodic_interval))
            => ~(~is_stepwise_interval(step_interval)
                 \/ melodic_interval * step_interval > 0)

\* mutant: the approach is looked at only inside the test for a leap made by
\* the previous two notes
LeapApproachOK_AfterLeapOnly(line, index) ==
    LET p == prev_note(line, index)
        pp == prev_prev_note(line, index)
        melodic_interval == distance_to(p, get_soprano_note(line, index))
        step_interval == distance_to(pp, p)
    IN  (p # None /\ pp # None /\ is_leap_interval(step_interval)
           /\ is_leap_interval(melodic_interval))
            => ~(~is_stepwise_interval(step_interval)
                 \/ melodic_interval * step_interval > 0)

\* lines 101-106: a leap into the current note was approached by a step in
\* the opposite direction
LeapApproachOK(line, index) ==
    LET p == prev_note(line, index)
        pp == prev_prev_note(line, index)
        melodic_interval == distance_to(p, get_soprano_note(line, index))
        step_interval == distance_to(pp, p)
    IN  (p # None /\ pp # None /\ is_leap_interval(melodic_interval))
            => ~(~is_stepwise_interval(step_interval)
                 \/ melodic_interval * step_interval > 0)

\* mutant: the tritone is not looked for
IntervalSizeOK_NoTritone(line, index) ==
    LET p == prev_note(line, index)
        melodic_interval == distance_to(p, get_soprano_note(line, index))
    IN  p # None => ~(Abs(melodic_interval) > 7)

\* lines 109-114: no melodic interval beyond a perfect fifth, no tritone
IntervalSizeOK(line, index) ==
    LET p == prev_note(line, index)
        melodic_interval == distance_to(p, get_soprano_note(line, index))
    IN  p # None => ~(Abs(melodic_interval) > 7) /\ ~(Abs(melodic_interval) = 6)

\* mutant: only parallel octaves are caught, parallel fifths pass
ParallelOK_OctavesOnly(line, index) ==
    LET p == prev_note(line, index)
        interval_prev == distance_to(get_bass_pitch(index - 1), p) % 12
        interval_curr ==
            distance_to(get_bass_pitch(index), get_soprano_note(line, index)) % 12
    IN  p # None => ~(interval_prev = interval_curr /\ interval_curr = 0)

\* lines 117-123: parallel fifths and octaves with the bass
ParallelOK(line, index) ==
    LET p == prev_note(line, index)
        interval_prev == distance_to(get_bass_pitch(index - 1), p) % 12
        interval_curr ==
            distance_to(get_bass_pitch(index), get_soprano_note(line, index)) % 12
    IN  p # None =>
            ~(interval_prev = interval_curr
              /\ (interval_curr = 0 \/ interval_curr = 7))

\* mutant: the disjunct motion is looked for in the soprano, as the docstring
\* of soprano_valid_at words the rule
DirectOK_SopranoDisjunct(line, index) ==
    LET p == prev_note(line, index)
        soprano_note == get_soprano_note(line, index)
        interval_curr == distance_to(get_bass_pitch(index), soprano_note) % 12
        melodic_interval_soprano == distance_to(p, soprano_note)
        melodic_interval_bass ==
            distance_to(get_bass_pitch(index - 1), get_bass_pitch(index))
    IN  (p # None /\ (interval_curr = 0 \/ interval_curr = 7))
            => ~(is_disjunct_interval(melodic_interval_soprano)
                 /\ melodic_interval_soprano * melodic_interval_bass > 0)

\* lines 125-131: direct (hidden) fifths and octaves
DirectOK(line, index) ==
    LET p == prev_note(line, index)
        soprano_note == get_soprano_note(line, index)
        interval_curr == distance_to(get_bass_pitch(index), soprano_note) % 12
        melodic_interval_soprano == distance_to(p, soprano_note)
        melodic_interval_bass ==
            distance_to(get_bass_pitch(index - 1), get_bass_pitch(index))
    IN  (p # None /\ (interval_curr = 0 \/ interval_curr = 7))
            => ~(is_disjunct_interval(melodic_interval_bass)
                 /\ melodic_interval_soprano * melodic_interval_bass > 0)

\* lines 136-140: the tendency tones at a chord
tendency_tones(chord) ==
    <<LEADING_TONE>>
    \o (IF chord.scale_degree = DOMINANT /\ chord.quality = "dominant_seventh"
        THEN <<SUBDOMINANT>> ELSE <<>>)
    \o (IF chord.scale_degree = LEADING_TONE THEN <<SUBDOMINANT>> ELSE <<>>)

\* mutant: the resolution is checked, the doubling is not
TendencyToneOK_NoDoubling(line, index, scale_degree) ==
    LET soprano_note == get_soprano_note(line, index)
        p == prev_note(line, index)
        scale_degree_pitch ==
            plus_interval(key.tonic, scale_degree_to_interval(scale_degree, key))
        expected_resolution ==
            IF scale_degree = LEADING_TONE
            THEN plus_interval(get_bass_pitch(index - 1), 1)
            ELSE plus_interval(get_bass_pitch(index - 1), -1)
    IN  (p # None /\ note_name_equals(p, scale_degree_pitch)
           /\ ~note_name_equals(soprano_note, p))
            => soprano_note = expected_resolution

\* mutant: the resolution is measured from the previous soprano note
TendencyToneOK_FromSoprano(line, index, scale_degree) ==
    LET soprano_note == get_soprano_note(line, index)
        p == prev_note(line, index)
        bass_note == get_bass_pitch(index)
        scale_degree_pitch ==
            plus_interval(key.tonic, scale_degree_to_interval(scale_degree, key))
        expected_resolution ==
            IF scale_degree = LEADING_TONE
            THEN plus_interval(p, 1)
            ELSE plus_interval(p, -1)
    IN  /\ (p # None /\ note_name_equals(p, scale_degree_pitch)
              /\ ~note_name_equals(soprano_note, p))
            => soprano_note = expected_resolution
        /\ ~(note_name_equals(soprano_note, scale_degree_pitch)
             /\ note_name_equals(bass_note, scale_degree_pitch))

\* lines 143-159, one pass of the loop over the tendency tones
TendencyToneOK(line, index, scale_degree) ==
    LET soprano_note == get_soprano_note(line, index)
        p == prev_note(line, index)
        bass_note == get_bass_pitch(index)
        scale_degree_pitch ==
            plus_interval(key.tonic, scale_degree_to_interval(scale_degree, key))
        expected_resolution ==
            IF scale_degree = LEADING_TONE
            THEN plus_interval(get_bass_pitch(index - 1), 1)
            ELSE plus_interval(get_bass_pitch(index - 1), -1)
    IN  /\ (p # None /\ note_name_equals(p, scale_degree_pitch)
              /\ ~note_name_equals(soprano_note, p))
            => soprano_note = expected_resolution
        /\ ~(note_name_equals(soprano_note, scale_degree_pitch)
             /\ note_name_equals(bass_note, scale_degree_pitch))

TendencyOK(line, index) ==
    LET tt == tendency_tones(get_chord(index))
    IN  \A k \in 1..Len(tt) : TendencyToneOK(line, index, tt[k])

\* mutant: an unset slot is put through the checks like a note
soprano_valid_at_UnsetChecked(line, index) ==
    /\ RangeAndMemberOK(line, index)
    /\ LeapLeftOK(line, index)
    /\ LeapApproachOK(line, index)
    /\ IntervalSizeOK(line, index)
    /\ ParallelOK(line, index)
    /\ DirectOK(line, index)
    /\ TendencyOK(line, index)

\* lines 78-159: None at the slot is valid; a note passes every check in turn
soprano_valid_at(line, index) ==
    IF get_soprano_note(line, index) = None THEN TRUE
    ELSE /\ RangeAndMemberOK(line, index)
         /\ LeapLeftOK(line, index)
         /\ LeapApproachOK(line, index)
         /\ IntervalSizeOK(line, index)
         /\ ParallelOK(line, index)
         /\ DirectOK(line, index)
         /\ TendencyOK(line, index)

soprano_valid(line) ==
    \A i \in 0..(num_chords(line) - 1) : soprano_valid_at(line, i)

----
(* chorale.py: Chorale.__init__ and Chorale.copy, over the heap of lists *)

\* the reference of the caller's Chorale's soprano_line
Caller == 0

Refs == {Caller} \cup Gens

\* mutant: the constructor keeps the list it was handed
list_alias(ref, fresh) == ref

\* list(soprano_line): a new list object holding the same notes
list_copy(ref, fresh) == fresh

\* Chorale(bassline): every slot unset
FreshLine(bl) == [k \in 1..Len(bl) |-> None]

----
(* chorale_generator.py: the Random stream *)

\* mutant: every generator draws from the one module-level stream
StreamOf_Global(g) == Caller

\* self.random: the stream generator g draws from is its own
StreamOf(g) == g

\* Random(random_seed): the stream's state is a function of the seed alone
Random(random_seed) == random_seed

\* one step of the stream (a linear congruential generator stands for
\* Python's generator: what matters is that it is deterministic)
NextRandom(s) == (s * 33 + 7) % 251

RECURSIVE Draw(_, _)
\* the state after k draws from state s; the k-th value drawn is that state
Draw(s, k) == IF k = 0 THEN s ELSE NextRandom(Draw(s, k - 1))

\* random.randint(0, b) from a raw draw
randint(raw, b) == raw % (b + 1)

----
(* chorale_generator.py: motion_key and the candidate order *)

\* mutant: a repeated note gets the smallest base, below a step
category_RepeatedLowest(line, index, note) ==
    LET prev == prev_note(line, index)
        interval == Abs(distance_to(prev, note))
        base == IF interval = 0 THEN 8
                ELSE IF interval <= 2 THEN 10
                ELSE IF interval <= 4 THEN 15
                ELSE 30
        bass_motion == distance_to(get_bass_pitch(index), get_bass_pitch(index - 1))
        soprano_motion == distance_to(note, prev)
        motion_product == bass_motion * soprano_motion
    IN  IF motion_product < 0 THEN base - 3
        ELSE IF motion_product = 0 THEN base - 1
        ELSE base + 3

\* lines 35-55: the bound of the random draw for candidate note at slot index
category(line, index, note) ==
    LET prev == prev_note(line, index)
        interval == Abs(distance_to(prev, note))
        base == IF interval = 0 THEN 12
                ELSE IF interval <= 2 THEN 10
                ELSE IF interval <= 4 THEN 15
                ELSE 30
        bass_motion == distance_to(get_bass_pitch(index), get_bass_pitch(index - 1))
        soprano_motion == distance_to(note, prev)
        motion_product == bass_motion * soprano_motion
    IN  IF motion_product < 0 THEN base - 3
        ELSE IF motion_product = 0 THEN base - 1
        ELSE base + 3

\* draws motion_key makes per candidate: random() alone without a previous
\* note, randint() and random() with one
DrawsPerKey(line, index) == IF prev_note(line, index) = None THEN 1 ELSE 2

\* motion_key of the j-th candidate of slot index, the stream being in state s
\* when the list comprehension of line 58 starts
motion_key(line, index, s, j) ==
    LET note == get_soprano_candidates(index)[j]
    IN  IF prev_note(line, index) = None
        THEN <<0, Draw(s, j)>>
        ELSE <<randint(Draw(s, 2 * j - 1), category(line, index, note)),
               Draw(s, 2 * j)>>

\* tuple comparison
KeyLess(a, b) == a[1] < b[1] \/ (a[1] = b[1] /\ a[2] < b[2])

\* lines 58-60: the candidates sorted by motion_key (list.sort is stable)
SortedCandidates(line, index, s) ==
    LET c == get_soprano_candidates(index)
        n == Len(c)
        Keys == {[j \in 1..n |-> motion_key(line, index, s, j)]}
        Ranks == {[j \in 1..n |-> Cardinality({i \in 1..n :
                     KeyLess(keys[i], keys[j]) \/ (keys[i] = keys[j] /\ i < j)})] :
                  keys \in Keys}
    IN  CHOOSE order \in
            {[r \in 1..n |-> c[CHOOSE j \in 1..n : rank[j] = r - 1]] :
                rank \in Ranks} : TRUE

\* the stream's state after line 58
AfterKeys(line, index, s) ==
    Draw(s, DrawsPerKey(line, index) * Len(get_soprano_candidates(index)))

----
(* The inputs: basslines taken from the repository's own progressions *)

Chord(scale_degree, quality) == [scale_degree |-> scale_degree, quality |-> quality]

Harm(bass, chord) == [bass |-> bass, chord |-> chord]

\* chorale.py lines 233-239: I ii V7 I in C major
ProgressionCMajor ==
    [key |-> [tonic |-> from_note_name(0, 4), is_major |-> TRUE],
     harms |-> << Harm(from_note_name(0, 3), Chord(TONIC, "major")),
                  Harm(from_note_name(2, 3), Chord(SUPERTONIC, "minor")),
                  Harm(from_note_name(7, 2), Chord(DOMINANT, "dominant_seventh")),
                  Harm(from_note_name(0, 3), Chord(TONIC, "major")) >>]

\* test_chorale_generator.py lines 141-149: I V6 I IV I6/4 V I in C major
ProgressionOneFiveOne ==
    [key |-> [tonic |-> from_note_name(0, 4), is_major |-> TRUE],
     harms |-> << Harm(from_note_name(0, 3), Chord(TONIC, "major")),
                  Harm(from_note_name(11, 2), Chord(DOMINANT, "major")),
                  Harm(from_note_name(0, 3), Chord(TONIC, "major")),
                  Harm(from_note_name(5, 3), Chord(SUBDOMINANT, "major")),
                  Harm(from_note_name(7, 3), Chord(TONIC, "major")),
                  Harm(from_note_name(7, 3), Chord(DOMINANT, "major")),
                  Harm(from_note_name(0, 3), Chord(TONIC, "major")) >>]

\* test_chorale_generator.py lines 174-180: i iv6 iv6 V in C minor
ProgressionPhrygian ==
    [key |-> [tonic |-> from_note_name(0, 4), is_major |-> FALSE],
     harms |-> << Harm(from_note_name(0, 3), Chord(TONIC, "minor")),
                  Harm(from_note_name(8, 3), Chord(SUBDOMINANT, "minor")),
                  Harm(from_note_name(8, 3), Chord(SUBDOMINANT, "minor")),
                  Harm(from_note_name(7, 3), Chord(DOMINANT, "major")) >>]

\* a caller's bassline with the tendency tones in the bass: vii I6 V4/2 I6 in
\* C major (B3 under the leading-tone triad, F3 under the dominant seventh)
ProgressionTendency ==
    [key |-> [tonic |-> from_note_name(0, 4), is_major |-> TRUE],
     harms |-> << Harm(from_note_name(11, 3), Chord(LEADING_TONE, "diminished")),
                  Harm(from_note_name(4, 3), Chord(TONIC, "major")),
                  Harm(from_note_name(5, 3), Chord(DOMINANT, "dominant_seventh")),
                  Harm(from_note_name(4, 3), Chord(TONIC, "major")) >>]

Progressions ==
    {ProgressionCMajor, ProgressionOneFiveOne, ProgressionPhrygian,
     ProgressionTendency}

\* the basslines of at most MaxLen slots: the runs of consecutive chords of a
\* progression, the empty bassline (HarmonizedBassline's default) among them
Segments(prog) ==
    LET L == Len(prog.harms)
    IN  {SubSeq(prog.harms, w[1], w[1] + w[2] - 1) :
            w \in {v \in (1..L) \X (0..MaxLen) : v[1] + v[2] - 1 <= L}}

----
(* The state after the caller built HarmonizedBassline(key, harms) and      *)
(* Chorale(bassline): no soprano note set, no generator built.              *)

Init ==
    /\ \E prog \in Progressions :
          /\ key = prog.key
          /\ bassline \in Segments(prog)
    /\ candidates = ComputeCandidates(bassline, key)
    /\ heap = [r \in Refs |-> IF r = Caller THEN FreshLine(bassline) ELSE <<>>]
    /\ lineRef = [r \in Refs |-> Caller]
    /\ built = [g \in Gens |-> FALSE]
    /\ seed = [g \in Gens |-> 0]
    /\ rng = [r \in Refs |-> 0]
    /\ stack = [g \in Gens |-> <<>>]
    /\ result = [g \in Gens |-> "none"]
    /\ pre = [g \in Gens |-> <<>>]
    /\ visited = [g \in Gens |-> <<>>]

\* the soprano line of the caller's Chorale, and of generator g's
CallerLine == heap[lineRef[Caller]]

GenLine(g) == heap[lineRef[g]]

Idle == \A g \in Gens : stack[g] = <<>>

NumSet(line) == Cardinality({k \in 1..Len(line) : line[k] # None})

----
(* The caller's operations *)

\* chorale.set_soprano_note(index, pitch) on the caller's Chorale
SetSopranoNote(index, pitch) ==
    /\ heap' = [heap EXCEPT ![lineRef[Caller]] =
                    set_soprano_note(CallerLine, index, pitch)]
    /\ UNCHANGED <<key, bassline, candidates, lineRef, built, seed, rng, stack,
                   result, pre, visited>>

\* test_chorale_generator.py lines 20-21: the hints, set before any generator
\* is built; -1 is the last slot
SetHint ==
    /\ \A g \in Gens : ~built[g]
    /\ NumSet(CallerLine) < MaxHints
    /\ \E index \in -1..(Len(CallerLine) - 1), pitch \in HintPitches :
          /\ Len(CallerLine) > 0
          /\ get_soprano_note(CallerLine, PyIndex(CallerLine, index)) = None
          /\ SetSopranoNote(index, pitch)

\* ChoraleGenerator(chorale, random_seed): chorale.copy() and Random(random_seed)
NewGenerator(g) ==
    /\ ~built[g]
    /\ Idle
    /\ \E random_seed \in Seeds :
          /\ seed' = [seed EXCEPT ![g] = random_seed]
          /\ rng' = [rng EXCEPT ![StreamOf(g)] = Random(random_seed)]
    /\ built' = [built EXCEPT ![g] = TRUE]
    /\ lineRef' = [lineRef EXCEPT ![g] = list_copy(lineRef[Caller], g)]
    /\ heap' = [heap EXCEPT ![list_copy(lineRef[Caller], g)] = CallerLine]
    /\ UNCHANGED <<key, bassline, candidates, stack, result, pre, visited>>

----
(* generate_soprano: the recursion of _try_generate_soprano_for_index, one  *)
(* frame per call; the top of the stack is its last element                 *)

Frame(index, kind, order, pos) ==
    [index |-> index, kind |-> kind, order |-> order, pos |-> pos]

\* a frame just called, its body not yet run
CallFrame(index) == Frame(index, "call", <<>>, 0)

Top(g) == stack[g][Len(stack[g])]

Front(st) == SubSeq(st, 1, Len(st) - 1)

ReplaceTop(st, f) == Front(st) \o <<f>>

\* mutant: the whole-line validity check is left out
Complete_LocalOnly(line, index) ==
    soprano_valid_at(line, index) /\ soprano_done(line)

\* lines 25 and 70: the acceptance test at the last slot
Complete(line, index) ==
    soprano_valid_at(line, index) /\ soprano_valid(line) /\ soprano_done(line)

\* mutant: a slot is treated as unset whatever it holds
IsAssigned_Never(line, index) == FALSE

\* line 22: the slot already holds a note
IsAssigned(line, index) == get_soprano_note(line, index) # None

\* mutant: the slot keeps the last candidate tried
Backtrack_Keep(line, index) == line

\* mutant: the slot before the exhausted one is cleared
Backtrack_SlotBefore(line, index) == set_soprano_note(line, index - 1, None)

\* line 75: clear the slot
Backtrack(line, index) == set_soprano_note(line, index, None)

RECURSIVE PopHints(_)
\* a False returned into line 27 is returned again
PopHints(st) ==
    IF st = <<>> THEN st
    ELSE IF st[Len(st)].kind = "hint" THEN PopHints(Front(st))
    ELSE st

\* the top frame returns False: through the frames waiting at line 27, to the
\* frame waiting at line 72, which goes on with its next candidate, or out of
\* generate_soprano
ReturnFalse(g) ==
    LET st == PopHints(Front(stack[g]))
    IN  IF st = <<>>
        THEN /\ stack' = [stack EXCEPT ![g] = <<>>]
             /\ result' = [result EXCEPT ![g] = "False"]
        ELSE /\ stack' = [stack EXCEPT ![g] =
                    ReplaceTop(st, [st[Len(st)] EXCEPT !.pos = @ + 1])]
             /\ UNCHANGED result

\* the top frame returns True: lines 27 and 73 return it at once, at every level
ReturnTrue(g) ==
    /\ stack' = [stack EXCEPT ![g] = <<>>]
    /\ result' = [result EXCEPT ![g] = "True"]

\* generator.generate_soprano()
Generate(g) ==
    /\ built[g]
    /\ Idle
    /\ result[g] = "none"
    /\ stack' = [stack EXCEPT ![g] = <<CallFrame(0)>>]
    /\ pre' = [pre EXCEPT ![g] = GenLine(g)]
    /\ UNCHANGED <<key, bassline, candidates, heap, lineRef, built, seed, rng,
                   result, visited>>

\* line 22 on a slot past the last: soprano_line[index] raises IndexError,
\* which no frame catches
EnterPastEnd(g) ==
    /\ stack[g] # <<>>
    /\ Top(g).kind = "call"
    /\ Top(g).index >= num_chords(GenLine(g))
    /\ stack' = [stack EXCEPT ![g] = <<>>]
    /\ result' = [result EXCEPT ![g] = "IndexError"]
    /\ UNCHANGED <<key, bassline, candidates, heap, lineRef, built, seed, rng,
                   pre, visited>>

\* lines 22-27: the slot is already set
EnterAssigned(g) ==
    /\ stack[g] # <<>>
    /\ Top(g).kind = "call"
    /\ Top(g).index < num_chords(GenLine(g))
    /\ IsAssigned(GenLine(g), Top(g).index)
    /\ IF Top(g).index = num_chords(GenLine(g)) - 1
       THEN IF Complete(GenLine(g), Top(g).index)
            THEN ReturnTrue(g)
            ELSE ReturnFalse(g)
       ELSE /\ stack' = [stack EXCEPT ![g] =
                   ReplaceTop(@, [Top(g) EXCEPT !.kind = "hint"])
                   \o <<CallFrame(Top(g).index + 1)>>]
            /\ UNCHANGED result
    /\ UNCHANGED <<key, bassline, candidates, heap, lineRef, built, seed, rng,
                   pre, visited>>

\* lines 30-60: the slot is unset; order its candidates
EnterUnset(g) ==
    /\ stack[g] # <<>>
    /\ Top(g).kind = "call"
    /\ Top(g).index < num_chords(GenLine(g))
    /\ ~IsAssigned(GenLine(g), Top(g).index)
    /\ stack' = [stack EXCEPT ![g] = ReplaceTop(@,
           Frame(Top(g).index, "loop",
                 SortedCandidates(GenLine(g), Top(g).index, rng[StreamOf(g)]), 1))]
    /\ rng' = [rng EXCEPT ![StreamOf(g)] = AfterKeys(GenLine(g), Top(g).index, @)]
    /\ UNCHANGED <<key, bassline, candidates, heap, lineRef, built, seed,
                   result, pre, visited>>

\* lines 65-73: one pass of the loop over the candidates
TryCandidate(g) ==
    /\ stack[g] # <<>>
    /\ Top(g).kind = "loop"
    /\ Top(g).pos <= Len(Top(g).order)
    /\ LET index == Top(g).index
           candidate == Top(g).order[Top(g).pos]
           line == set_soprano_note(GenLine(g), index, candidate)
       IN  /\ heap' = [heap EXCEPT ![lineRef[g]] = line]
           /\ visited' = [visited EXCEPT ![g] = Append(@, <<index, candidate>>)]
           /\ IF ~soprano_valid_at(line, index)
              THEN /\ stack' = [stack EXCEPT ![g] =
                          ReplaceTop(@, [Top(g) EXCEPT !.pos = @ + 1])]
                   /\ UNCHANGED result
              ELSE IF index = num_chords(line) - 1 /\ Complete(line, index)
              THEN ReturnTrue(g)
              ELSE /\ stack' = [stack EXCEPT ![g] =
                          Append(@, CallFrame(index + 1))]
                   /\ UNCHANGED result
    /\ UNCHANGED <<key, bassline, candidates, lineRef, built, seed, rng, pre>>

\* lines 74-76: every candidate was tried; clear the slot and return False
Exhausted(g) ==
    /\ stack[g] # <<>>
    /\ Top(g).kind = "loop"
    /\ Top(g).pos > Len(Top(g).order)
    /\ heap' = [heap EXCEPT ![lineRef[g]] = Backtrack(GenLine(g), Top(g).index)]
    /\ ReturnFalse(g)
    /\ UNCHANGED <<key, bassline, candidates, lineRef, built, seed, rng, pre,
                   visited>>

Next ==
    \/ SetHint
    \/ \E g \in Gens :
          \/ NewGenerator(g)
          \/ Generate(g)
          \/ EnterPastEnd(g)
          \/ EnterAssigned(g)
          \/ EnterUnset(g)
          \/ TryCandidate(g)
          \/ Exhausted(g)

Spec == Init /\ [][Next]_vars

----
(* The Chorale alone: the caller sets and clears soprano notes at will *)

SetAnyNote ==
    /\ Len(CallerLine) > 0
    /\ \E index \in -1..(Len(CallerLine) - 1), pitch \in NotePitches \cup {None} :
          SetSopranoNote(index, pitch)

NextChorale == SetAnyNote

SpecChorale == Init /\ [][NextChorale]_vars

----
(* chorale.py: Chorale(bassline, soprano_line, soprano_candidates) and copy *)

\* the notes of a soprano line that a caller hands to the constructor
ConstructPitches == {67, 72}

\* an optional argument, passed or left at its default None
Arg(value) == [given |-> TRUE, value |-> value]

NoArg == [given |-> FALSE, value |-> <<>>]

\* lines 11-24: the fields of the Chorale the constructor builds, and whether
\* it raises ValueError instead (line 16)
Chorale_init(bl, soprano_line, soprano_candidates) ==
    [raises |-> soprano_candidates.given
                /\ Len(soprano_candidates.value) # Len(bl),
     soprano_line |-> IF soprano_line.given THEN soprano_line.value
                      ELSE FreshLine(bl),
     soprano_candidates |-> IF soprano_candidates.given
                            THEN soprano_candidates.value
                            ELSE ComputeCandidates(bl, key)]

\* soprano lines of any length up to MaxLen, and None
SuppliedLines ==
    {NoArg} \cup {Arg(l) : l \in UNION {[1..n -> ConstructPitches \cup {None}] :
                                          n \in 0..MaxLen}}

\* candidate lists: None, the cache of a Chorale of this bassline, and lists
\* one slot longer and one slot shorter
SuppliedCandidates ==
    {NoArg, Arg(ComputeCandidates(bassline, key)),
     Arg(Append(ComputeCandidates(bassline, key), <<>>)),
     Arg(IF bassline = <<>> THEN <<<<>>>>
         ELSE Tail(ComputeCandidates(bassline, key)))}

\* the caller's Chorale becomes the one the constructor built
Rebind(c) ==
    /\ ~c.raises
    /\ heap' = [heap EXCEPT ![lineRef[Caller]] = c.soprano_line]
    /\ candidates' = c.soprano_candidates
    /\ UNCHANGED <<key, bassline, lineRef, built, seed, rng, stack, result, pre,
                   visited>>

\* chorale = Chorale(bassline, soprano_line, soprano_candidates)
Construct ==
    \E soprano_line \in SuppliedLines, soprano_candidates \in SuppliedCandidates :
        Rebind(Chorale_init(bassline, soprano_line, soprano_candidates))

\* lines 170-172: chorale = chorale.copy()
CopyChorale ==
    Rebind(Chorale_init(bassline, Arg(CallerLine), Arg(candidates)))

\* chorale.set_soprano_note(index, pitch) at an index of the soprano line
SetLineNote ==
    /\ Len(CallerLine) > 0
    /\ \E index \in -1..(Len(CallerLine) - 1), pitch \in ConstructPitches \cup {None} :
          SetSopranoNote(index, pitch)

NextConstruct == Construct \/ CopyChorale \/ SetLineNote

SpecConstruct == Init /\ [][NextConstruct]_vars

----
(* chorale.py: set_soprano_note along lines long enough for slots more than *)
(* two apart                                                                *)

\* the notes the caller sets: B3 below the soprano range, F4, G4, C5
LocalPitches == {59, 65, 67, 72}

\* the runs of at most LocalLen consecutive chords of a progression
Runs(prog) ==
    LET L == Len(prog.harms)
    IN  {SubSeq(prog.harms, w[1], w[1] + w[2] - 1) :
            w \in {v \in (1..L) \X (0..LocalLen) : v[1] + v[2] - 1 <= L}}

\* HarmonizedBassline(key, harms); Chorale(bassline)
InitLocal ==
    /\ \E prog \in Progressions :
          /\ key = prog.key
          /\ bassline \in Runs(prog)
    /\ candidates = ComputeCandidates(bassline, key)
    /\ heap = [r \in Refs |-> IF r = Caller THEN FreshLine(bassline) ELSE <<>>]
    /\ lineRef = [r \in Refs |-> Caller]
    /\ built = [g \in Gens |-> FALSE]
    /\ seed = [g \in Gens |-> 0]
    /\ rng = [r \in Refs |-> 0]
    /\ stack = [g \in Gens |-> <<>>]
    /\ result = [g \in Gens |-> "none"]
    /\ pre = [g \in Gens |-> <<>>]
    /\ visited = [g \in Gens |-> <<>>]

\* chorale.set_soprano_note(index, pitch)
SetLocalNote ==
    \E index \in 0..(Len(CallerLine) - 1), pitch \in LocalPitches \cup {None} :
        SetSopranoNote(index, pitch)

NextLocal == SetLocalNote

SpecLocal == InitLocal /\ [][NextLocal]_vars

----
(* Definitions the properties are stated with *)

Returned(g) == result[g] \in {"True", "False"}

Ended(g) == result[g] # "none"

Slots(line) == 0..(Len(line) - 1)

SeqRange(seq) == {seq[k] : k \in 1..Len(seq)}

RECURSIVE CandidateLines(_)
\* every line whose first n slots hold candidates of their slots
CandidateLines(n) ==
    IF n = 0 THEN {<<>>}
    ELSE {Append(l, p) : l \in CandidateLines(n - 1), p \in SeqRange(candidates[n])}

\* a complete assignment in which every slot is valid exists
ValidAssignmentExists ==
    \E l \in CandidateLines(Len(bassline)) : \A i \in Slots(l) : soprano_valid_at(l, i)

\* the soprano-over-bass interval class at slot i
Residue(line, i) == (get_soprano_note(line, i) - get_bass_pitch(i)) % 12

----
(* C1..C10 *)

\* C1: whenever generate_soprano returns True, the generator's soprano line is
\* complete and soprano_valid_at holds at every slot, with or without hints.
C1_SuccessCompleteAndValid ==
    \A g \in Gens : result[g] = "True" =>
        /\ soprano_done(GenLine(g))
        /\ \A i \in Slots(GenLine(g)) : soprano_valid_at(GenLine(g), i)

\* a generator given a hint returned True on a bassline of three slots or more
C1_Witness ==
    \E g \in Gens : /\ result[g] = "True"
                    /\ NumSet(pre[g]) > 0
                    /\ Len(GenLine(g)) >= 3

\* C2: whenever generate_soprano returns False, every slot holds what it held
\* when generate_soprano was called.
C2_FailureRollsBack ==
    \A g \in Gens : result[g] = "False" => GenLine(g) = pre[g]

\* a generator given a hint assigned notes and then returned False
C2_Witness ==
    \E g \in Gens : /\ result[g] = "False"
                    /\ NumSet(pre[g]) > 0
                    /\ Len(visited[g]) >= 2

\* C3 (as claimed): without hints, generate_soprano returns True when a complete
\* valid assignment exists and False when none does.
C3_CompleteSearch ==
    \A g \in Gens : (Ended(g) /\ NumSet(pre[g]) = 0) =>
        /\ ValidAssignmentExists => result[g] = "True"
        /\ ~ValidAssignmentExists => result[g] = "False"

\* C3 on basslines of at least one slot
C3_CompleteSearchNonEmpty ==
    \A g \in Gens : (Ended(g) /\ NumSet(pre[g]) = 0 /\ Len(bassline) >= 1) =>
        /\ ValidAssignmentExists => result[g] = "True"
        /\ ~ValidAssignmentExists => result[g] = "False"

\* C4 (as claimed): on a bassline of at least one slot, whatever the hints,
\* generate_soprano ends by returning True or False, never by an exception.
C4_EndsWithBoolean ==
    \A g \in Gens : (Ended(g) /\ Len(bassline) >= 1) => Returned(g)

\* C5: two generators built with the same seed from equal chorales try the same
\* candidates in the same order, end the same way and with the same line.
C5_SameSeedSameRun ==
    \A g \in Gens, h \in Gens :
        (Ended(g) /\ Ended(h) /\ seed[g] = seed[h] /\ pre[g] = pre[h]) =>
            /\ visited[g] = visited[h]
            /\ result[g] = result[h]
            /\ GenLine(g) = GenLine(h)

\* two generators with one seed both searched three slots and returned True
C5_Witness ==
    \E g \in Gens, h \in Gens :
        /\ g # h
        /\ seed[g] = seed[h]
        /\ result[g] = "True" /\ result[h] = "True"
        /\ Len(visited[g]) >= 3 /\ Len(visited[h]) >= 3

C7_HintsKept ==
    \A g \in Gens : (stack[g] # <<>> \/ Ended(g)) =>
        /\ \A k \in 1..Len(pre[g]) :
              pre[g][k] # None => GenLine(g)[k] = pre[g][k]
        /\ \A f \in 1..Len(stack[g]) :
              stack[g][f].kind = "loop" => pre[g][stack[g][f].index + 1] = None
        /\ \A v \in 1..Len(visited[g]) : pre[g][visited[g][v][1] + 1] = None

\* a generator whose last slot was hinted searched the slots before it and ended
C7_Witness ==
    \E g \in Gens : /\ Returned(g)
                    /\ Len(pre[g]) >= 2
                    /\ pre[g][Len(pre[g])] # None
                    /\ Len(visited[g]) >= 2

\* C8: while a generator searches, the soprano line of the Chorale it was
\* built from and the lines of the other generators do not change.
C8_OwnCopy ==
    [][\A g \in Gens : stack[g] # <<>> =>
          /\ CallerLine' = CallerLine
          /\ \A h \in Gens \ {g} : GenLine(h)' = GenLine(h)]_vars

\* both generators returned True with different lines, the caller's Chorale
\* still holding only its hint
C8_Witness ==
    \E g \in Gens, h \in Gens :
        /\ result[g] = "True" /\ result[h] = "True"
        /\ GenLine(g) # GenLine(h)
        /\ NumSet(CallerLine) = 1
        /\ Len(CallerLine) >= 2

\* C9: at a slot i >= 1 whose soprano-bass interval class is that of slot i-1
\* and is an octave (0) or a fifth (7), soprano_valid_at(i) is False.
C9_ParallelsRejected ==
    \A i \in Slots(CallerLine) :
        (/\ i >= 1
         /\ get_soprano_note(CallerLine, i - 1) # None
         /\ get_soprano_note(CallerLine, i) # None
         /\ Residue(CallerLine, i - 1) = Residue(CallerLine, i)
         /\ Residue(CallerLine, i) \in {0, 7})
        => ~soprano_valid_at(CallerLine, i)

\* bass C3 to D3 under soprano G4 to A4
C9_Witness ==
    /\ Len(bassline) >= 2
    /\ get_bass_pitch(0) = 48 /\ get_bass_pitch(1) = 50
    /\ get_soprano_note(CallerLine, 0) = 67
    /\ get_soprano_note(CallerLine, 1) = 69
    /\ ~soprano_valid_at(CallerLine, 1)

\* C10: at a slot i >= 2 after a leap (more than 4 semitones) from slot i-2 to
\* slot i-1, soprano_valid_at(i) holds only if slot i is a step of 1 or 2
\* semitones from slot i-1 in the direction opposite to the leap; C5 G5 A5 is
\* invalid at its third slot, and C5 G5 F5 passes the check.
C10_LeapLeftByOppositeStep ==
    \A i \in Slots(CallerLine) :
        (/\ i >= 2
         /\ get_soprano_note(CallerLine, i - 2) # None
         /\ get_soprano_note(CallerLine, i - 1) # None
         /\ get_soprano_note(CallerLine, i) # None
         /\ Abs(get_soprano_note(CallerLine, i - 1)
                - get_soprano_note(CallerLine, i - 2)) > 4)
        => LET leap == get_soprano_note(CallerLine, i - 1)
                       - get_soprano_note(CallerLine, i - 2)
               step == get_soprano_note(CallerLine, i)
                       - get_soprano_note(CallerLine, i - 1)
           IN  /\ soprano_valid_at(CallerLine, i) =>
                    /\ Abs(step) \in {1, 2}
                    /\ (leap > 0 /\ step < 0) \/ (leap < 0 /\ step > 0)
               /\ (leap = 7 /\ step = 2 /\ get_soprano_note(CallerLine, i) = 81)
                    => ~soprano_valid_at(CallerLine, i)
               /\ (leap = 7 /\ step = -2 /\ get_soprano_note(CallerLine, i) = 77)
                    => LeapLeftOK(CallerLine, i)

\* a line valid at its third slot after a leap and a step back
C10_Witness ==
    \E i \in Slots(CallerLine) :
        /\ i >= 2
        /\ get_soprano_note(CallerLine, i - 2) # None
        /\ get_soprano_note(CallerLine, i - 1) # None
        /\ get_soprano_note(CallerLine, i) # None
        /\ Abs(get_soprano_note(CallerLine, i - 1)
               - get_soprano_note(CallerLine, i - 2)) > 4
        /\ soprano_valid_at(CallerLine, i)

\* the pitch class of a scale degree in the key
DegreeClass(scale_degree) ==
    (key.tonic + scale_degree_to_interval(scale_degree, key)) % 12

\* the tendency tones that apply at slot i: the leading tone always, scale
\* degree 4 under a dominant seventh on the dominant or a chord on the leading
\* tone
Applicable(i) ==
    {LEADING_TONE}
    \cup (IF \/ (get_chord(i).scale_degree = DOMINANT
                 /\ get_chord(i).quality = "dominant_seventh")
             \/ get_chord(i).scale_degree = LEADING_TONE
          THEN {SUBDOMINANT} ELSE {})

\* C11: at any slot i, slot 0 included, where the soprano and the bass both
\* sound the pitch class of an applicable tendency tone, soprano_valid_at(i)
\* is False, whatever the previous notes are.
C11_TendencyToneNotDoubled ==
    \A i \in Slots(CallerLine) : \A sd \in Applicable(i) :
        (/\ get_soprano_note(CallerLine, i) # None
         /\ get_soprano_note(CallerLine, i) % 12 = DegreeClass(sd)
         /\ get_bass_pitch(i) % 12 = DegreeClass(sd))
        => ~soprano_valid_at(CallerLine, i)

\* F5 over the F3 of a dominant seventh at slot 0, in the soprano range and a
\* chord tone, with nothing before it
C11_Witness ==
    /\ Len(bassline) >= 1
    /\ SUBDOMINANT \in Applicable(0)
    /\ get_bass_pitch(0) % 12 = DegreeClass(SUBDOMINANT)
    /\ get_soprano_note(CallerLine, 0) = 77
    /\ RangeAndMemberOK(CallerLine, 0)
    /\ ~soprano_valid_at(CallerLine, 0)

\* C13: every Chorale that the constructor accepts, and every one reached from
\* it by set_soprano_note and copy, has a soprano line and a candidate list of
\* the length of the bassline (a construction with a soprano line or a
\* candidate list of another length raises instead of building a Chorale).
C13_LengthsAgree ==
    /\ Len(CallerLine) = num_harmonizations
    /\ Len(candidates) = num_harmonizations

\* C14: soprano_valid_at(i) is True whenever slot i is unset, whatever its
\* neighbours hold; a fresh Chorale with at least one slot has soprano_valid()
\* True and soprano_done() False.
C14_UnsetSlotValid ==
    /\ \A i \in Slots(CallerLine) :
          get_soprano_note(CallerLine, i) = None => soprano_valid_at(CallerLine, i)
    /\ (Len(CallerLine) >= 1 /\ CallerLine = FreshLine(bassline))
          => soprano_valid(CallerLine) /\ ~soprano_done(CallerLine)

\* an unset slot between B3, below the soprano range, and A5, above it
C14_Witness ==
    /\ Len(CallerLine) = 3
    /\ get_soprano_note(CallerLine, 0) = 59
    /\ get_soprano_note(CallerLine, 1) = None
    /\ get_soprano_note(CallerLine, 2) = 81
    /\ soprano_valid_at(CallerLine, 1)
    /\ ~soprano_valid(CallerLine)

\* C15: at a slot i >= 2 with slots i-2, i-1 and i assigned, where slot i is
\* more than 4 semitones from slot i-1, soprano_valid_at(i) holds only if slot
\* i-1 is 1 or 2 semitones from slot i-2 in the direction opposite to the leap,
\* whether or not the previous two notes made a leap themselves.
C15_LeapApproachedByOppositeStep ==
    \A i \in Slots(CallerLine) :
        (/\ i >= 2
         /\ get_soprano_note(CallerLine, i - 2) # None
         /\ get_soprano_note(CallerLine, i - 1) # None
         /\ get_soprano_note(CallerLine, i) # None
         /\ Abs(get_soprano_note(CallerLine, i)
                - get_soprano_note(CallerLine, i - 1)) > 4
         /\ soprano_valid_at(CallerLine, i))
        => LET leap == get_soprano_note(CallerLine, i)
                       - get_soprano_note(CallerLine, i - 1)
               step == get_soprano_note(CallerLine, i - 1)
                       - get_soprano_note(CallerLine, i - 2)
           IN  /\ Abs(step) \in {1, 2}
               /\ (leap > 0 /\ step < 0) \/ (leap < 0 /\ step > 0)

\* a leap into the third slot that is valid there
C15_Witness ==
    \E i \in Slots(CallerLine) :
        /\ i >= 2
        /\ get_soprano_note(CallerLine, i - 2) # None
        /\ get_soprano_note(CallerLine, i - 1) # None
        /\ get_soprano_note(CallerLine, i) # None
        /\ Abs(get_soprano_note(CallerLine, i)
               - get_soprano_note(CallerLine, i - 1)) > 4
        /\ soprano_valid_at(CallerLine, i)

\* C16: at a slot i >= 1 with slots i-1 and i assigned, soprano_valid_at(i) is
\* False when the two notes are more than 7 semitones apart and when they are
\* exactly 6 apart, so the interval into a valid slot is 0, 1, 2, 3, 4, 5 or 7
\* semitones.
C16_MelodicIntervalSize ==
    \A i \in Slots(CallerLine) :
        (/\ i >= 1
         /\ get_soprano_note(CallerLine, i - 1) # None
         /\ get_soprano_note(CallerLine, i) # None)
        => LET size == Abs(get_soprano_note(CallerLine, i)
                           - get_soprano_note(CallerLine, i - 1))
           IN  /\ (size > 7 \/ size = 6) => ~soprano_valid_at(CallerLine, i)
               /\ soprano_valid_at(CallerLine, i) => size \in {0, 1, 2, 3, 4, 5, 7}

\* a tritone that every other check lets through
C16_Witness ==
    \E i \in Slots(CallerLine) :
        /\ i >= 1
        /\ get_soprano_note(CallerLine, i - 1) # None
        /\ get_soprano_note(CallerLine, i) # None
        /\ Abs(get_soprano_note(CallerLine, i)
               - get_soprano_note(CallerLine, i - 1)) = 6
        /\ RangeAndMemberOK(CallerLine, i)
        /\ LeapLeftOK(CallerLine, i) /\ LeapApproachOK(CallerLine, i)
        /\ ParallelOK(CallerLine, i) /\ DirectOK(CallerLine, i)
        /\ TendencyOK(CallerLine, i)
        /\ ~soprano_valid_at(CallerLine, i)

ResolutionTarget(i, sd) ==
    get_bass_pitch(i - 1) + (IF sd = LEADING_TONE THEN 1 ELSE -1)

C19_StepwiseResolutionAccepted ==
    \A i \in Slots(CallerLine) :
        (/\ i >= 1
         /\ get_soprano_note(CallerLine, i - 1) # None
         /\ get_soprano_note(CallerLine, i) # None
         /\ \/ /\ get_soprano_note(CallerLine, i - 1) % 12 = DegreeClass(LEADING_TONE)
               /\ get_soprano_note(CallerLine, i) % 12 = DegreeClass(TONIC)
               /\ get_soprano_note(CallerLine, i)
                    = get_soprano_note(CallerLine, i - 1) + 1
            \/ /\ SUBDOMINANT \in Applicable(i)
               /\ get_soprano_note(CallerLine, i - 1) % 12 = DegreeClass(SUBDOMINANT)
               /\ get_soprano_note(CallerLine, i) % 12 = DegreeClass(MEDIANT)
               /\ get_soprano_note(CallerLine, i - 1)
                    - get_soprano_note(CallerLine, i) \in {1, 2})
        => TendencyOK(CallerLine, i)

\* the pitches from C4 to G5 with the pitch class of tone, lowest first
PlacementsOf(tone) ==
    LET placements == {p \in from_note_name(0, 4)..from_note_name(7, 5) :
                          p % 12 = tone % 12}
    IN  CHOOSE seq \in [1..Cardinality(placements) -> placements] :
            \A a, b \in 1..Cardinality(placements) : a < b => seq[a] < seq[b]

RECURSIVE PlacementsOfAll(_)
\* the placements of each chord tone, in the order of the chord tones
PlacementsOfAll(tones) ==
    IF tones = <<>> THEN <<>>
    ELSE PlacementsOf(Head(tones)) \o PlacementsOfAll(Tail(tones))

C21_HintValidatedBeforeDescent ==
    \A g \in Gens : \A k \in 1..Len(stack[g]) :
        stack[g][k].kind = "hint"
        => /\ get_soprano_note(GenLine(g), stack[g][k].index)
                = get_soprano_note(pre[g], stack[g][k].index)
           /\ soprano_valid_at(GenLine(g), stack[g][k].index)

\* the melodic size of candidate note after the note before slot i:
\* "repeat", "step" (1 or 2 semitones), "third" (3 or 4) or "leap"
SizeOf(line, i, note) ==
    LET size == Abs(note - get_soprano_note(line, i - 1))
    IN  IF size = 0 THEN "repeat"
        ELSE IF size <= 2 THEN "step"
        ELSE IF size <= 4 THEN "third"
        ELSE "leap"

\* the motion of soprano against bass into slot i: -1 contrary, 0 oblique,
\* 1 similar
MotionOf(line, i, note) ==
    LET product == (note - get_soprano_note(line, i - 1))
                   * (get_bass_pitch(i) - get_bass_pitch(i - 1))
    IN  IF product < 0 THEN -1 ELSE IF product = 0 THEN 0 ELSE 1

\* generator g has just ordered the candidates of a slot (line 59)
JustOrdered(g) ==
    /\ stack[g] # <<>>
    /\ Top(g).kind = "loop"
    /\ Top(g).pos = 1

\* the sort keys with a category that generator g has computed along its line,
\* at the slots it found unset with the note before them set: size, motion
\* type and bound of each
KeyFacts(g) ==
    {<<SizeOf(GenLine(g), ic[1], get_soprano_candidates(ic[1])[ic[2]]),
       MotionOf(GenLine(g), ic[1], get_soprano_candidates(ic[1])[ic[2]]),
       category(GenLine(g), ic[1], get_soprano_candidates(ic[1])[ic[2]])>> :
        ic \in {v \in (1..Top(g).index) \X (1..8) :
                   /\ get_soprano_note(pre[g], v[1]) = None
                   /\ get_soprano_note(GenLine(g), v[1] - 1) # None
                   /\ v[2] <= Len(get_soprano_candidates(v[1]))}}

\* the bounds of the random draw grow in the order of the sizes in ranking,
\* under one motion type
BoundsFollow(ranking) ==
    \A g \in Gens : JustOrdered(g) =>
        \A facts \in {KeyFacts(g)} : \A x, y \in facts :
            (x[2] = y[2] /\ ranking[x[1]] < ranking[y[1]]) => x[3] < y[3]

\* contrary motion lowers the bound, oblique motion lowers it less, similar
\* motion raises it: for one size, contrary is 2 below oblique and oblique 4
\* below similar
MotionShiftsBound ==
    \A g \in Gens : JustOrdered(g) =>
        \A facts \in {KeyFacts(g)} : \A x, y \in facts :
            (x[1] = y[1] /\ x[2] < y[2])
            => y[3] - x[3]
                 = (IF x[2] = -1 THEN 2 ELSE 0) + (IF y[2] = 1 THEN 4 ELSE 0)

\* C22 as stated: under one motion type the bound of the random draw is
\* smallest for a repeated note, larger for a step, larger again for a third
\* and largest for a larger leap; contrary motion lowers it, oblique motion
\* lowers it slightly, similar motion raises it.
C22_RepeatedNoteLowest ==
    /\ BoundsFollow([repeat |-> 0, step |-> 1, third |-> 2, leap |-> 3])
    /\ MotionShiftsBound

\* C22 amended: under one motion type the bound is smallest for a step, larger
\* for a repeated note, larger again for a third and largest for a larger
\* leap; the motion types shift it as stated.
C22_StepLowest ==
    /\ BoundsFollow([step |-> 0, repeat |-> 1, third |-> 2, leap |-> 3])
    /\ MotionShiftsBound

\* a line along which a repeated note and a step were both keyed in oblique
\* motion, the candidates of the later slot just ordered
C22_Witness ==
    \E g \in Gens :
        /\ JustOrdered(g)
        /\ \E x, y \in KeyFacts(g) :
              /\ x[1] = "repeat" /\ y[1] = "step"
              /\ x[2] = 0 /\ y[2] = 0
              /\ y[3] < x[3]

\* C23: while generate_soprano runs, the calls of
\* _try_generate_soprano_for_index on the stack never outnumber the slots of
\* the bassline, and a call goes through at most the candidate list of its
\* slot.
C23_DepthWithinSlots ==
    \A g \in Gens :
        /\ Len(stack[g]) <= num_harmonizations
        /\ \A k \in 1..Len(stack[g]) :
              stack[g][k].kind = "loop"
              => /\ Len(stack[g][k].order)
                      = Len(get_soprano_candidates(stack[g][k].index))
                 /\ stack[g][k].pos <= Len(stack[g][k].order) + 1

\* the chord qualities with a seventh
SeventhQualities ==
    {"major_seventh", "minor_seventh", "dominant_seventh",
     "half_diminished_seventh", "diminished_seventh"}

\* C24: at a slot whose chord has a seventh quality, soprano_valid_at is False
\* when the soprano sounds the pitch class of the bass.
C24_NoDoublingInSeventhChord ==
    \A i \in Slots(CallerLine) :
        (/\ get_chord(i).quality \in SeventhQualities
         /\ get_soprano_note(CallerLine, i) # None
         /\ get_soprano_note(CallerLine, i) % 12 = get_bass_pitch(i) % 12)
        => ~soprano_valid_at(CallerLine, i)

\* C25: a set_soprano_note that leaves slots i-2, i-1 and i of the soprano line
\* as they were leaves soprano_valid_at(i) as it was: no slot after i and no
\* slot before i-2 is read, and slots 0 and 1 do not read the end of the line
\* through a negative index.
C25_ValidityLocal ==
    [][\A i \in Slots(CallerLine) :
          (\A k \in {i - 2, i - 1, i} \cap Slots(CallerLine) :
              get_soprano_note(CallerLine', k) = get_soprano_note(CallerLine, k))
          => (soprano_valid_at(CallerLine', i) = soprano_valid_at(CallerLine, i))]_vars

\* four notes: B3 at slot 0 is invalid there, slot 3 is valid after slot 0 was
\* set
C25_Witness ==
    /\ Len(CallerLine) >= 4
    /\ get_soprano_note(CallerLine, 0) = 59
    /\ get_soprano_note(CallerLine, 1) # None
    /\ get_soprano_note(CallerLine, 2) # None
    /\ get_soprano_note(CallerLine, 3) # None
    /\ ~soprano_valid_at(CallerLine, 0)
    /\ soprano_valid_at(CallerLine, 3)

\* generator g is about to run the body of a call for a slot of the line
StartsSlot(g) ==
    /\ stack[g] # <<>>
    /\ Top(g).kind = "call"
    /\ Top(g).index < num_chords(GenLine(g))

\* C26: whenever the search starts work on slot k, every slot before k is
\* assigned, every slot before k that was not pre-assigned satisfies
\* soprano_valid_at, and every slot from k on that was not pre-assigned is
\* unset.
C26_SearchStateInvariant ==
    \A g \in Gens :
        StartsSlot(g)
        => \A j \in Slots(GenLine(g)) :
              /\ j < Top(g).index
                    => /\ get_soprano_note(GenLine(g), j) # None
                       /\ get_soprano_note(pre[g], j) = None
                             => soprano_valid_at(GenLine(g), j)
              /\ (j >= Top(g).index /\ get_soprano_note(pre[g], j) = None)
                    => get_soprano_note(GenLine(g), j) = None

\* the search starts a slot again after it had tried a note there and gone
\* back to an earlier slot
C26_Witness ==
    \E g \in Gens :
        /\ StartsSlot(g)
        /\ Top(g).index >= 1
        /\ get_soprano_note(pre[g], Top(g).index) = None
        /\ \E v \in 1..Len(visited[g]) : visited[g][v][1] = Top(g).index

====
